---- MODULE Spec2Model ----
(***************************************************************************)
(* Model of clusterfuzz/_internal/bot/tasks/__init__.py: the execution     *)
(* strategies (TrustedTask, UTask, UTaskLocalExecutor, PostprocessTask,    *)
(* UworkerMainTask), the COMMAND_MAP registry and its two classification   *)
(* queries.  Each caller p runs one call at a time; a call to execute      *)
(* advances one phase function per step, so that calls of different        *)
(* callers interleave at phase granularity.                                *)
(***************************************************************************)
EXTENDS Integers, Sequences, FiniteSets, TLC

VARIABLES
  COMMAND_MAP,  \* the registry: a Python dict, kept as a sequence of entries in insertion order
  pc,           \* pc[p]: where caller p stands: "idle", a phase about to be called, or "done"
  self,         \* self[p]: the strategy object whose execute caller p runs
  ctx,          \* ctx[p]: the arguments of execute: task_argument, job_type, uworker_env
  locals,       \* locals[p]: the local variables of execute that hold handoff values
  calls,        \* calls[p]: the calls execute has made so far, in order
  op,           \* op[p]: the function caller p called, and the task name it passed
  ret,          \* ret[p]: what the call handed to its caller: a value or a raised fault
  signal        \* signal[p]: how execute ended: "Completed", "Skipped" or "Fault"

vars == <<COMMAND_MAP, pc, self, ctx, locals, calls, op, ret, signal>>

----------------------------------------------------------------------------
(* Bounds and input domains *)

MaxArg == 1
MaxReg == 3

Procs == {1, 2}
TaskArguments == 1..MaxArg
JobTypes == {"job_a", "job_b"}
Envs == {"env_x", "env_y"}

\* Python's None, and what the variables of a caller hold while it runs no call
None == [kind |-> "None"]
NoTask == [cls |-> "NoTask", module |-> "none"]
NoCtx == [task_argument |-> 0, job_type |-> "none", uworker_env |-> "none"]
NoLocals == [preprocess_result |-> None, uworker_output |-> None]
NoRet == [kind |-> "running", value |-> None]
NoOp == [fn |-> "none", task_name |-> "none"]

----------------------------------------------------------------------------
(* Task modules and strategy classes *)

UtaskModules == {"analyze_task", "corpus_pruning_task", "fuzz_task",
                 "minimize_task", "progression_task", "regression_task",
                 "variant_task"}

TrustedModules == {"blame_task", "impact_task", "symbolize_task",
                   "unpack_task", "upload_reports_task"}

Classes == {"TrustedTask", "UTask", "UTaskLocalExecutor", "PostprocessTask",
            "UworkerMainTask"}

BaseTask(cls, module) == [cls |-> cls, module |-> module]

TrustedTask(module) == BaseTask("TrustedTask", module)

UTask(module) == BaseTask("UTask", module)

UTaskLocalExecutor(module) == BaseTask("UTaskLocalExecutor", module)

PostprocessTask == BaseTask("PostprocessTask", "none")

UworkerMainTask == BaseTask("UworkerMainTask", "none")

\* Mutant: the two branches of utask_factory are the wrong way round
utask_factory_swapped(task_module, in_memory) ==
  IF in_memory THEN UTask(task_module) ELSE UTaskLocalExecutor(task_module)

utask_factory(task_module, in_memory) ==
  IF in_memory THEN UTaskLocalExecutor(task_module) ELSE UTask(task_module)

----------------------------------------------------------------------------
(* The registry: a dict literal, its lookup and the classification queries *)

RECURSIVE DictIndex(_, _, _)
DictIndex(d, key, i) ==
  IF i > Len(d) THEN 0
  ELSE IF d[i].name = key THEN i
  ELSE DictIndex(d, key, i + 1)

DictKeys(d) == {d[i].name : i \in 1..Len(d)}

\* d[key] = value: a new key goes last, a bound key keeps its place and takes the new value
DictSetItem(d, key, value) ==
  LET i == DictIndex(d, key, 1)
  IN IF i = 0 THEN Append(d, [name |-> key, task |-> value])
     ELSE [d EXCEPT ![i] = [name |-> key, task |-> value]]

RECURSIVE DictLiteral(_)
DictLiteral(items) ==
  IF items = <<>> THEN <<>>
  ELSE LET last == items[Len(items)]
       IN DictSetItem(DictLiteral(SubSeq(items, 1, Len(items) - 1)),
                      last[1], last[2])

\* What a call hands to its caller: a returned value or a raised fault
Returned(value) == [kind |-> "return", value |-> value]

Raised(exc) == [kind |-> "raise", value |-> exc]

KeyError(key) == [exc |-> "KeyError", key |-> key]

\* Mutant: a lookup that falls back to a default, as COMMAND_MAP.get would
DictGetItemOrDefault(d, key) ==
  LET i == DictIndex(d, key, 1)
  IN IF i = 0 THEN Returned(d[1].task) ELSE Returned(d[i].task)

\* COMMAND_MAP[task_name]
DictGetItem(d, key) ==
  LET i == DictIndex(d, key, 1)
  IN IF i = 0 THEN Raised(KeyError(key)) ELSE Returned(d[i].task)

ShippedCommandMap(in_memory) ==
  DictLiteral(<<
    <<"analyze", utask_factory("analyze_task", in_memory)>>,
    <<"blame", TrustedTask("blame_task")>>,
    <<"corpus_pruning", utask_factory("corpus_pruning_task", in_memory)>>,
    <<"fuzz", utask_factory("fuzz_task", in_memory)>>,
    <<"impact", TrustedTask("impact_task")>>,
    <<"minimize", utask_factory("minimize_task", in_memory)>>,
    <<"progression", utask_factory("progression_task", in_memory)>>,
    <<"regression", utask_factory("regression_task", in_memory)>>,
    <<"symbolize", TrustedTask("symbolize_task")>>,
    <<"unpack", TrustedTask("unpack_task")>>,
    <<"uworker_postprocess", PostprocessTask>>,
    <<"upload_reports", TrustedTask("upload_reports_task")>>,
    <<"uworker_main", UworkerMainTask>>,
    <<"variant", utask_factory("variant_task", in_memory)>>
  >>)

\* Mutant: the in-memory executor counts as a UTask too
isinstance_any_utask(task) == task.cls \in {"UTask", "UTaskLocalExecutor"}

\* The registry as the module builds it: every utask_factory call takes the
\* default in_memory=True
LoadedCommandMap == ShippedCommandMap(TRUE)

\* isinstance(task, UTask): no other strategy class derives from UTask
isinstance_UTask(task) == task.cls = "UTask"

is_multimachine_executed(map, task_name) ==
  LET task == DictGetItem(map, task_name)
  IN IF task.kind = "raise" THEN task
     ELSE Returned(isinstance_UTask(task.value))

\* Mutant: the names are collected last first
RECURSIVE get_multimachine_tasks_reversed(_, _)
get_multimachine_tasks_reversed(map, i) ==
  IF i > Len(map) THEN <<>>
  ELSE LET rest == get_multimachine_tasks_reversed(map, i + 1)
           r == is_multimachine_executed(map, map[i].name)
       IN IF r.kind = "return" /\ r.value
          THEN rest \o <<map[i].name>>
          ELSE rest

RECURSIVE get_multimachine_tasks_from(_, _)
get_multimachine_tasks_from(map, i) ==
  IF i > Len(map) THEN <<>>
  ELSE LET rest == get_multimachine_tasks_from(map, i + 1)
           r == is_multimachine_executed(map, map[i].name)
       IN IF r.kind = "return" /\ r.value
          THEN <<map[i].name>> \o rest
          ELSE rest

get_multimachine_tasks(map) == Returned(get_multimachine_tasks_from(map, 1))

----------------------------------------------------------------------------
(* Handoff artifacts, the storage collaborator and the phase contract *)

\* What a phase function may do when called: return None, return an artifact, or raise
PhaseResults == {"None", "Artifact", "Fault"}

UworkerInput(module, task_argument, job_type) ==
  [kind |-> "uworker_input", module |-> module,
   task_argument |-> task_argument, job_type |-> job_type]

UworkerOutput(uworker_input) ==
  [kind |-> "uworker_output", module |-> uworker_input.module,
   task_argument |-> uworker_input.task_argument,
   job_type |-> uworker_input.job_type]

Fault(fn, module) == [exc |-> "PhaseFault", fn |-> fn, module |-> module]

\* materialize(artifact) -> Locator
Materialize(artifact) ==
  [path |-> artifact.kind, module |-> artifact.module,
   task_argument |-> artifact.task_argument, job_type |-> artifact.job_type]

\* resolve(Locator) -> artifact
Resolve(locator) ==
  [kind |-> locator.path, module |-> locator.module,
   task_argument |-> locator.task_argument, job_type |-> locator.job_type]

\* A task_argument used as a locator by the standalone strategies: the artifact
\* it names, of the kind that strategy consumes, was stored by an earlier run
\* and names its own task module.  The output path of a task_argument is
\* where main, run on the input path of that task_argument, stores what it
\* returns.
ExternalPath(task_argument, kind) ==
  [path |-> kind, module |-> "embedded",
   task_argument |-> task_argument, job_type |-> "embedded"]

CallEvent(fn, module, args, result) ==
  [fn |-> fn, module |-> module, args |-> args, ret |-> result]

\* module.utask_preprocess(task_argument, job_type, uworker_env)
utask_preprocess(module, c, r) ==
  CallEvent("utask_preprocess", module,
            <<c.task_argument, c.job_type, c.uworker_env>>,
            CASE r = "None" -> Returned(None)
              [] r = "Fault" -> Raised(Fault("utask_preprocess", module))
              [] OTHER -> Returned(UworkerInput(module, c.task_argument, c.job_type)))

\* module.utask_main(uworker_input)
utask_main(module, uworker_input, r) ==
  CallEvent("utask_main", module, <<uworker_input>>,
            CASE r = "None" -> Returned(None)
              [] r = "Fault" -> Raised(Fault("utask_main", module))
              [] OTHER -> Returned(UworkerOutput(uworker_input)))

\* module.utask_postprocess(uworker_output)
utask_postprocess(module, uworker_output, r) ==
  CallEvent("utask_postprocess", module, <<uworker_output>>,
            IF r = "Fault" THEN Raised(Fault("utask_postprocess", module))
            ELSE Returned(None))

\* module.execute_task(task_argument, job_type)
execute_task(module, task_argument, job_type, r) ==
  CallEvent("execute_task", module, <<task_argument, job_type>>,
            IF r = "Fault" THEN Raised(Fault("execute_task", module))
            ELSE Returned(None))

\* Each utasks function gives the calls it made, in order, and what it handed back

\* utasks.tworker_preprocess: preprocess, then materialize the input; hands back
\* (input_download_url, output_download_url)
tworker_preprocess(module, c, r) ==
  LET call == utask_preprocess(module, c, r)
      uworker_input == call.ret.value
  IN IF call.ret.kind = "raise" \/ call.ret.value = None
     THEN [events |-> <<call>>, ret |-> call.ret]
     ELSE [events |-> <<call, CallEvent("materialize", "storage",
                                       <<uworker_input>>,
                                       Returned(Materialize(uworker_input)))>>,
           ret |-> Returned([input_download_url |-> Materialize(uworker_input),
                             output_download_url |->
                               Materialize(UworkerOutput(uworker_input))])]

\* utasks.uworker_main: resolve the input, run main, materialize its output if any
uworker_main(input_download_url, r) ==
  LET uworker_input == Resolve(input_download_url)
      fetch == CallEvent("resolve", "storage", <<input_download_url>>,
                         Returned(uworker_input))
      call == utask_main(uworker_input.module, uworker_input, r)
  IN IF call.ret.kind = "raise" \/ call.ret.value = None
     THEN [events |-> <<fetch, call>>, ret |-> call.ret]
     ELSE [events |-> <<fetch, call,
                        CallEvent("materialize", "storage", <<call.ret.value>>,
                                  Returned(Materialize(call.ret.value)))>>,
           ret |-> Returned(Materialize(call.ret.value))]

\* utasks.tworker_postprocess: resolve the output, run postprocess
tworker_postprocess(output_download_url, r) ==
  LET uworker_output == Resolve(output_download_url)
      fetch == CallEvent("resolve", "storage", <<output_download_url>>,
                         Returned(uworker_output))
      call == utask_postprocess(uworker_output.module, uworker_output, r)
  IN [events |-> <<fetch, call>>, ret |-> call.ret]

tworker_preprocess_no_io(module, c, r) ==
  LET call == utask_preprocess(module, c, r)
  IN [events |-> <<call>>, ret |-> call.ret]

uworker_main_no_io(module, uworker_input, r) ==
  LET call == utask_main(module, uworker_input, r)
  IN [events |-> <<call>>, ret |-> call.ret]

\* utasks.tworker_postprocess_no_io: postprocess gets the output together with
\* the input it came from
tworker_postprocess_no_io(module, uworker_output, uworker_input, r) ==
  LET call == [utask_postprocess(module, uworker_output, r)
                 EXCEPT !.args = <<uworker_output, uworker_input>>]
  IN [events |-> <<call>>, ret |-> call.ret]

logs_log(message) == CallEvent("logs.log", "logs", <<message>>, Returned(None))

----------------------------------------------------------------------------
(* How a call of caller p moves on *)

\* p's call starts running execute of `task`
Enter(p, call, task, task_argument, job_type, uworker_env) ==
  /\ pc' = [pc EXCEPT ![p] =
              CASE task.cls = "TrustedTask" -> "execute_task"
                [] task.cls \in {"UTask", "UTaskLocalExecutor"} -> "preprocess"
                [] task.cls = "PostprocessTask" -> "postprocess"
                [] OTHER -> "main"]
  /\ self' = [self EXCEPT ![p] = task]
  /\ ctx' = [ctx EXCEPT ![p] = [task_argument |-> task_argument,
                                job_type |-> job_type,
                                uworker_env |-> uworker_env]]
  /\ locals' = [locals EXCEPT ![p] = NoLocals]
  /\ calls' = [calls EXCEPT ![p] = <<>>]
  /\ op' = [op EXCEPT ![p] = call]
  /\ ret' = [ret EXCEPT ![p] = NoRet]
  /\ signal' = [signal EXCEPT ![p] = "Running"]

\* Mutant: execute keeps its handoff values on the strategy object, as
\* self.preprocess_result and self.uworker_output would: every call running
\* on the same object sees them
Continue_storing_on_self(p, events, next_pc, next_locals) ==
  /\ pc' = [pc EXCEPT ![p] = next_pc]
  /\ locals' = [q \in Procs |->
                  IF q = p \/ (pc[q] /= "idle" /\ self[q] = self[p])
                  THEN next_locals ELSE locals[q]]
  /\ calls' = [calls EXCEPT ![p] = @ \o events]
  /\ UNCHANGED <<self, ctx, ret, signal>>

\* execute goes on to its next statement
Continue(p, events, next_pc, next_locals) ==
  /\ pc' = [pc EXCEPT ![p] = next_pc]
  /\ locals' = [locals EXCEPT ![p] = next_locals]
  /\ calls' = [calls EXCEPT ![p] = @ \o events]
  /\ UNCHANGED <<self, ctx, ret, signal>>

\* the call ends: `result` goes to the caller
Finish(p, events, result, sig) ==
  /\ pc' = [pc EXCEPT ![p] = "done"]
  /\ calls' = [calls EXCEPT ![p] = @ \o events]
  /\ ret' = [ret EXCEPT ![p] = result]
  /\ signal' = [signal EXCEPT ![p] = sig]
  /\ UNCHANGED <<self, ctx, locals>>

----------------------------------------------------------------------------
(* TrustedTask.execute *)

\* Mutant: uworker_env is passed on in the place of job_type
TrustedTask_execute_call_with_env(module, c, r) ==
  execute_task(module, c.task_argument, c.uworker_env, r)

\* del uworker_env; self.module.execute_task(task_argument, job_type)
TrustedTask_execute_call(module, c, r) ==
  execute_task(module, c.task_argument, c.job_type, r)

TrustedTask_execute(p) ==
  /\ pc[p] = "execute_task"
  /\ self[p].cls = "TrustedTask"
  /\ \E r \in {"None", "Fault"} :
       LET call == TrustedTask_execute_call(self[p].module, ctx[p], r)
       IN IF call.ret.kind = "raise"
          THEN Finish(p, <<call>>, call.ret, "Fault")
          ELSE Finish(p, <<call>>, Returned(None), "Completed")
  /\ UNCHANGED <<COMMAND_MAP, op>>

----------------------------------------------------------------------------
(* UTask.execute: the class bound to the name UTask when the module is loaded *)

\* if preprocess_result is None: return
UTask_preprocess_result_is_None(preprocess_result) == preprocess_result = None

\* Mutant: preprocess is called again and again until it hands something back
UTask_execute_preprocess_until_result(p) ==
  /\ pc[p] = "preprocess"
  /\ self[p].cls = "UTask"
  /\ \E r \in PhaseResults :
       LET out == tworker_preprocess(self[p].module, ctx[p], r)
       IN IF out.ret.kind = "raise"
          THEN Finish(p, out.events, out.ret, "Fault")
          ELSE IF UTask_preprocess_result_is_None(out.ret.value)
          THEN Continue(p, out.events, "preprocess", locals[p])
          ELSE Continue(p, out.events, "main",
                        [locals[p] EXCEPT !.preprocess_result = out.ret.value])
  /\ UNCHANGED <<COMMAND_MAP, op>>

UTask_execute_preprocess(p) ==
  /\ pc[p] = "preprocess"
  /\ self[p].cls = "UTask"
  /\ \E r \in PhaseResults :
       LET out == tworker_preprocess(self[p].module, ctx[p], r)
       IN IF out.ret.kind = "raise"
          THEN Finish(p, out.events, out.ret, "Fault")
          ELSE IF UTask_preprocess_result_is_None(out.ret.value)
          THEN Finish(p, out.events, Returned(None), "Skipped")
          ELSE Continue(p, out.events, "main",
                        [locals[p] EXCEPT !.preprocess_result = out.ret.value])
  /\ UNCHANGED <<COMMAND_MAP, op>>

\* Mutant: the pair is unpacked the wrong way round
UTask_output_download_url(preprocess_result) ==
  preprocess_result.output_download_url

\* input_download_url, _ = preprocess_result
UTask_input_download_url(preprocess_result) ==
  preprocess_result.input_download_url

\* Mutant: execute goes on to postprocess on this machine when main gave an output
UTask_execute_main_then_postprocess(p) ==
  /\ pc[p] = "main"
  /\ self[p].cls = "UTask"
  /\ \E r \in PhaseResults, r2 \in {"None", "Fault"} :
       LET input_download_url == UTask_input_download_url(locals[p].preprocess_result)
           out == uworker_main(input_download_url, r)
           post == tworker_postprocess(out.ret.value, r2)
       IN IF out.ret.kind = "raise"
          THEN Finish(p, out.events, out.ret, "Fault")
          ELSE IF out.ret.value = None
          THEN Finish(p, out.events, Returned(None), "Skipped")
          ELSE IF post.ret.kind = "raise"
          THEN Finish(p, out.events \o post.events, post.ret, "Fault")
          ELSE Finish(p, out.events \o post.events, Returned(None), "Completed")
  /\ UNCHANGED <<COMMAND_MAP, op>>

\* Mutant: the call of utasks.uworker_main is written twice
UTask_execute_main_twice(p) ==
  /\ pc[p] = "main"
  /\ self[p].cls = "UTask"
  /\ \E r \in PhaseResults, r2 \in PhaseResults :
       LET input_download_url == UTask_input_download_url(locals[p].preprocess_result)
           first == uworker_main(input_download_url, r)
           again == uworker_main(input_download_url, r2)
       IN IF first.ret.kind = "raise"
          THEN Finish(p, first.events, first.ret, "Fault")
          ELSE IF again.ret.kind = "raise"
          THEN Finish(p, first.events \o again.events, again.ret, "Fault")
          ELSE Finish(p, first.events \o again.events \o
                         <<logs_log("Utask: done with preprocess and main.")>>,
                      Returned(None), "Completed")
  /\ UNCHANGED <<COMMAND_MAP, op>>

\* utasks.uworker_main(input_download_url); logs.log(...)
UTask_execute_main(p) ==
  /\ pc[p] = "main"
  /\ self[p].cls = "UTask"
  /\ \E r \in PhaseResults :
       LET input_download_url == UTask_input_download_url(locals[p].preprocess_result)
           out == uworker_main(input_download_url, r)
       IN IF out.ret.kind = "raise"
          THEN Finish(p, out.events, out.ret, "Fault")
          ELSE Finish(p, out.events \o
                         <<logs_log("Utask: done with preprocess and main.")>>,
                      Returned(None), "Completed")
  /\ UNCHANGED <<COMMAND_MAP, op>>

----------------------------------------------------------------------------
(* UTaskLocalExecutor.execute *)

\* Mutant: the check of preprocess's result is lost, execute goes on to main
UTaskLocalExecutor_uworker_input_never_None(uworker_input) == FALSE

\* if uworker_input is None: return
UTaskLocalExecutor_uworker_input_is_None(uworker_input) == uworker_input = None

\* Mutant: the check of main's result is lost, execute goes on to postprocess
UTaskLocalExecutor_uworker_output_never_None(uworker_output) == FALSE

\* if uworker_output is None: return
UTaskLocalExecutor_uworker_output_is_None(uworker_output) == uworker_output = None

UTaskLocalExecutor_execute_preprocess(p) ==
  /\ pc[p] = "preprocess"
  /\ self[p].cls = "UTaskLocalExecutor"
  /\ \E r \in PhaseResults :
       LET out == tworker_preprocess_no_io(self[p].module, ctx[p], r)
       IN IF out.ret.kind = "raise"
          THEN Finish(p, out.events, out.ret, "Fault")
          ELSE IF UTaskLocalExecutor_uworker_input_is_None(out.ret.value)
          THEN Finish(p, out.events, Returned(None), "Skipped")
          ELSE Continue(p, out.events, "main",
                        [locals[p] EXCEPT !.preprocess_result = out.ret.value])
  /\ UNCHANGED <<COMMAND_MAP, op>>

\* Mutant: a fault of main is answered by calling main once more
UTaskLocalExecutor_execute_main_retrying(p) ==
  /\ pc[p] = "main"
  /\ self[p].cls = "UTaskLocalExecutor"
  /\ \E r \in PhaseResults, r2 \in PhaseResults :
       LET uworker_input == locals[p].preprocess_result
           first == uworker_main_no_io(self[p].module, uworker_input, r)
           again == uworker_main_no_io(self[p].module, uworker_input, r2)
           out == IF first.ret.kind = "raise"
                  THEN [events |-> first.events \o again.events,
                        ret |-> again.ret]
                  ELSE first
       IN IF out.ret.kind = "raise"
          THEN Finish(p, out.events, out.ret, "Fault")
          ELSE IF UTaskLocalExecutor_uworker_output_is_None(out.ret.value)
          THEN Finish(p, out.events, Returned(None), "Skipped")
          ELSE Continue(p, out.events, "postprocess",
                        [locals[p] EXCEPT !.uworker_output = out.ret.value])
  /\ UNCHANGED <<COMMAND_MAP, op>>

\* Mutant: the environment travels to main inside the artifact
UTaskLocalExecutor_execute_main_with_env(p) ==
  /\ pc[p] = "main"
  /\ self[p].cls = "UTaskLocalExecutor"
  /\ \E r \in PhaseResults :
       LET uworker_input == [kind |-> locals[p].preprocess_result.kind,
                             module |-> locals[p].preprocess_result.module,
                             task_argument |->
                               locals[p].preprocess_result.task_argument,
                             job_type |-> locals[p].preprocess_result.job_type,
                             uworker_env |-> ctx[p].uworker_env]
           out == uworker_main_no_io(self[p].module, uworker_input, r)
       IN IF out.ret.kind = "raise"
          THEN Finish(p, out.events, out.ret, "Fault")
          ELSE IF UTaskLocalExecutor_uworker_output_is_None(out.ret.value)
          THEN Finish(p, out.events, Returned(None), "Skipped")
          ELSE Continue(p, out.events, "postprocess",
                        [locals[p] EXCEPT !.uworker_output = out.ret.value])
  /\ UNCHANGED <<COMMAND_MAP, op>>

UTaskLocalExecutor_execute_main(p) ==
  /\ pc[p] = "main"
  /\ self[p].cls = "UTaskLocalExecutor"
  /\ \E r \in PhaseResults :
       LET uworker_input == locals[p].preprocess_result
           out == uworker_main_no_io(self[p].module, uworker_input, r)
       IN IF out.ret.kind = "raise"
          THEN Finish(p, out.events, out.ret, "Fault")
          ELSE IF UTaskLocalExecutor_uworker_output_is_None(out.ret.value)
          THEN Finish(p, out.events, Returned(None), "Skipped")
          ELSE Continue(p, out.events, "postprocess",
                        [locals[p] EXCEPT !.uworker_output = out.ret.value])
  /\ UNCHANGED <<COMMAND_MAP, op>>

\* Mutant: the two handoff values are passed on in the wrong order
UTaskLocalExecutor_execute_postprocess_swapped(p) ==
  /\ pc[p] = "postprocess"
  /\ self[p].cls = "UTaskLocalExecutor"
  /\ \E r \in {"None", "Fault"} :
       LET out == tworker_postprocess_no_io(self[p].module,
                                            locals[p].preprocess_result,
                                            locals[p].uworker_output, r)
       IN IF out.ret.kind = "raise"
          THEN Finish(p, out.events, out.ret, "Fault")
          ELSE Finish(p, out.events \o <<logs_log("Utask local: done.")>>,
                      Returned(None), "Completed")
  /\ UNCHANGED <<COMMAND_MAP, op>>

UTaskLocalExecutor_execute_postprocess(p) ==
  /\ pc[p] = "postprocess"
  /\ self[p].cls = "UTaskLocalExecutor"
  /\ \E r \in {"None", "Fault"} :
       LET out == tworker_postprocess_no_io(self[p].module,
                                            locals[p].uworker_output,
                                            locals[p].preprocess_result, r)
       IN IF out.ret.kind = "raise"
          THEN Finish(p, out.events, out.ret, "Fault")
          ELSE Finish(p, out.events \o <<logs_log("Utask local: done.")>>,
                      Returned(None), "Completed")
  /\ UNCHANGED <<COMMAND_MAP, op>>

----------------------------------------------------------------------------
(* PostprocessTask.execute and UworkerMainTask.execute *)

\* Mutant: PostprocessTask.execute has the body of UworkerMainTask.execute
PostprocessTask_execute_running_main(p) ==
  /\ pc[p] = "postprocess"
  /\ self[p].cls = "PostprocessTask"
  /\ \E r \in PhaseResults :
       LET input_path == ExternalPath(ctx[p].task_argument, "uworker_input")
           out == uworker_main(input_path, r)
       IN IF out.ret.kind = "raise"
          THEN Finish(p, out.events, out.ret, "Fault")
          ELSE Finish(p, out.events, Returned(None), "Completed")
  /\ UNCHANGED <<COMMAND_MAP, op>>

PostprocessTask_execute(p) ==
  /\ pc[p] = "postprocess"
  /\ self[p].cls = "PostprocessTask"
  /\ \E r \in {"None", "Fault"} :
       LET input_path == ExternalPath(ctx[p].task_argument, "uworker_output")
           out == tworker_postprocess(input_path, r)
       IN IF out.ret.kind = "raise"
          THEN Finish(p, out.events, out.ret, "Fault")
          ELSE Finish(p, out.events, Returned(None), "Completed")
  /\ UNCHANGED <<COMMAND_MAP, op>>

UworkerMainTask_execute(p) ==
  /\ pc[p] = "main"
  /\ self[p].cls = "UworkerMainTask"
  /\ \E r \in PhaseResults :
       LET input_path == ExternalPath(ctx[p].task_argument, "uworker_input")
           out == uworker_main(input_path, r)
       IN IF out.ret.kind = "raise"
          THEN Finish(p, out.events, out.ret, "Fault")
          ELSE Finish(p, out.events, Returned(None), "Completed")
  /\ UNCHANGED <<COMMAND_MAP, op>>

----------------------------------------------------------------------------
(* The callers: dispatch by name, a direct execute, the two queries *)

TaskNames == DictKeys(COMMAND_MAP) \cup {"nonexistent"}

\* dispatch(name, context): look the name up, forward to the bound strategy
Dispatch(p) ==
  /\ pc[p] = "idle"
  /\ \E task_name \in TaskNames, task_argument \in TaskArguments,
        job_type \in JobTypes, uworker_env \in Envs :
       LET call == [fn |-> "dispatch", task_name |-> task_name]
           task == DictGetItem(COMMAND_MAP, task_name)
       IN IF task.kind = "raise"
          THEN /\ Finish(p, <<>>, task, "Fault")
               /\ op' = [op EXCEPT ![p] = call]
          ELSE Enter(p, call, task.value, task_argument, job_type, uworker_env)
  /\ UNCHANGED COMMAND_MAP

\* execute called on a multi-machine strategy object, which utask_factory
\* makes when in_memory is false: the loaded registry binds no name to one
Execute(p) ==
  /\ pc[p] = "idle"
  /\ \E task_module \in UtaskModules, task_argument \in TaskArguments,
        job_type \in JobTypes, uworker_env \in Envs :
       Enter(p, [fn |-> "execute", task_name |-> "none"],
             utask_factory(task_module, FALSE), task_argument,
             job_type, uworker_env)
  /\ UNCHANGED COMMAND_MAP

\* a query ends in one step; it runs no phase function
Answer(p, fn, task_name, result) ==
  /\ pc' = [pc EXCEPT ![p] = "done"]
  /\ op' = [op EXCEPT ![p] = [fn |-> fn, task_name |-> task_name]]
  /\ ret' = [ret EXCEPT ![p] = result]
  /\ signal' = [signal EXCEPT ![p] =
                  IF result.kind = "raise" THEN "Fault" ELSE "Completed"]
  /\ UNCHANGED <<COMMAND_MAP, self, ctx, locals, calls>>

\* Mutant: a name that is not bound gets bound by the lookup, as
\* COMMAND_MAP.setdefault(task_name, None) would do
IsMultimachineExecuted_binding_the_name(p) ==
  /\ pc[p] = "idle"
  /\ \E task_name \in TaskNames :
       /\ pc' = [pc EXCEPT ![p] = "done"]
       /\ op' = [op EXCEPT ![p] = [fn |-> "is_multimachine_executed",
                                   task_name |-> task_name]]
       /\ ret' = [ret EXCEPT ![p] = Returned(FALSE)]
       /\ signal' = [signal EXCEPT ![p] = "Completed"]
       /\ COMMAND_MAP' = IF task_name \in DictKeys(COMMAND_MAP)
                         THEN COMMAND_MAP
                         ELSE DictSetItem(COMMAND_MAP, task_name, NoTask)
       /\ UNCHANGED <<self, ctx, locals, calls>>

IsMultimachineExecuted(p) ==
  /\ pc[p] = "idle"
  /\ \E task_name \in TaskNames :
       Answer(p, "is_multimachine_executed", task_name,
              is_multimachine_executed(COMMAND_MAP, task_name))

GetMultimachineTasks(p) ==
  /\ pc[p] = "idle"
  /\ Answer(p, "get_multimachine_tasks", "none",
            get_multimachine_tasks(COMMAND_MAP))

\* the caller takes the result; p may call again
Return(p) ==
  /\ pc[p] = "done"
  /\ pc' = [pc EXCEPT ![p] = "idle"]
  /\ self' = [self EXCEPT ![p] = NoTask]
  /\ ctx' = [ctx EXCEPT ![p] = NoCtx]
  /\ locals' = [locals EXCEPT ![p] = NoLocals]
  /\ calls' = [calls EXCEPT ![p] = <<>>]
  /\ op' = [op EXCEPT ![p] = NoOp]
  /\ ret' = [ret EXCEPT ![p] = NoRet]
  /\ signal' = [signal EXCEPT ![p] = "Running"]
  /\ UNCHANGED COMMAND_MAP

----------------------------------------------------------------------------
(* Specifications *)

InitCallers ==
  /\ pc = [p \in Procs |-> "idle"]
  /\ self = [p \in Procs |-> NoTask]
  /\ ctx = [p \in Procs |-> NoCtx]
  /\ locals = [p \in Procs |-> NoLocals]
  /\ calls = [p \in Procs |-> <<>>]
  /\ op = [p \in Procs |-> NoOp]
  /\ ret = [p \in Procs |-> NoRet]
  /\ signal = [p \in Procs |-> "Running"]

Init ==
  /\ COMMAND_MAP = LoadedCommandMap
  /\ InitCallers

Next ==
  \E p \in Procs :
    \/ Dispatch(p)
    \/ Execute(p)
    \/ TrustedTask_execute(p)
    \/ UTask_execute_preprocess(p)
    \/ UTask_execute_main(p)
    \/ UTaskLocalExecutor_execute_preprocess(p)
    \/ UTaskLocalExecutor_execute_main(p)
    \/ UTaskLocalExecutor_execute_postprocess(p)
    \/ PostprocessTask_execute(p)
    \/ UworkerMainTask_execute(p)
    \/ IsMultimachineExecuted(p)
    \/ GetMultimachineTasks(p)
    \/ Return(p)

Spec == Init /\ [][Next]_vars

\* The queries over every small registry a dict literal can build
RegistryNames == {"a", "b", "c", "d"}

RegistryTasks == {TrustedTask("task_module"),
                  utask_factory("task_module", FALSE),
                  utask_factory("task_module", TRUE),
                  PostprocessTask, UworkerMainTask}

RegistryItems ==
  UNION {[1..n -> RegistryNames \X RegistryTasks] : n \in 0..MaxReg}

InitRegistry ==
  /\ COMMAND_MAP \in {DictLiteral(items) : items \in RegistryItems}
  /\ InitCallers

NextRegistry ==
  \E p \in Procs :
    \/ IsMultimachineExecuted(p)
    \/ GetMultimachineTasks(p)
    \/ Return(p)

SpecRegistry == InitRegistry /\ [][NextRegistry]_vars

\* The load of the module: the dict literal stores its entries one by one, in
\* the order they are written, before any caller runs
CommandMapEntry(name, task) ==
  /\ \A p \in Procs : pc[p] = "idle"
  /\ COMMAND_MAP' = DictSetItem(COMMAND_MAP, name, task)
  /\ UNCHANGED <<pc, self, ctx, locals, calls, op, ret, signal>>

InitStartup ==
  /\ COMMAND_MAP = <<>>
  /\ InitCallers

NextStartup ==
  \E name \in RegistryNames, task \in RegistryTasks :
    CommandMapEntry(name, task)

SpecStartup == InitStartup /\ [][NextStartup]_vars

\* A multi-machine task from end to end: UTask.execute runs on this machine,
\* and another machine runs PostprocessTask.execute on each output that a
\* main has stored
OnThisMachine(p) == \A q \in Procs : p <= q

OnAnotherMachine(p) == ~OnThisMachine(p)

\* the locators under which p's execute has stored an artifact
Stored(p) ==
  LET made == SelectSeq(calls[p], LAMBDA e : e.fn = "materialize")
  IN {made[i].ret.value : i \in 1..Len(made)}

\* PostprocessTask.execute, from call to return, on another machine: its
\* task_argument is the locator of an output stored by this machine's main
PostprocessTask_execute_elsewhere(q) ==
  /\ pc[q] = "idle"
  /\ OnAnotherMachine(q)
  /\ \E p \in Procs, r \in {"None", "Fault"} :
       \E input_path \in {url \in Stored(p) : url.path = "uworker_output"} :
         LET out == tworker_postprocess(input_path, r)
         IN /\ OnThisMachine(p)
            /\ pc' = [pc EXCEPT ![q] = "done"]
            /\ self' = [self EXCEPT ![q] = PostprocessTask]
            /\ ctx' = [ctx EXCEPT ![q] =
                         [task_argument |-> input_path.task_argument,
                          job_type |-> "none", uworker_env |-> "none"]]
            /\ calls' = [calls EXCEPT ![q] = out.events]
            /\ op' = [op EXCEPT ![q] = [fn |-> "dispatch",
                                        task_name |-> "uworker_postprocess"]]
            /\ ret' = [ret EXCEPT ![q] =
                         IF out.ret.kind = "raise" THEN out.ret
                         ELSE Returned(None)]
            /\ signal' = [signal EXCEPT ![q] =
                            IF out.ret.kind = "raise" THEN "Fault"
                            ELSE "Completed"]
  /\ UNCHANGED <<COMMAND_MAP, locals>>

NextHandoff ==
  \E p \in Procs :
    \/ OnThisMachine(p) /\ Execute(p)
    \/ OnThisMachine(p) /\ UTask_execute_preprocess(p)
    \/ OnThisMachine(p) /\ UTask_execute_main(p)
    \/ PostprocessTask_execute_elsewhere(p)

\* execute, once called, runs to its end; a stored output is picked up (each
\* of these steps moves pc)
SpecHandoff ==
  /\ Init
  /\ [][NextHandoff]_vars
  /\ \A p \in Procs :
       /\ WF_pc(UTask_execute_preprocess(p) \/ UTask_execute_main(p))
       /\ WF_pc(PostprocessTask_execute_elsewhere(p))

----------------------------------------------------------------------------
(* What the claims speak of *)

PhaseFns == {"utask_preprocess", "utask_main", "utask_postprocess",
             "execute_task"}

UntrustedClasses == {"UTask", "UTaskLocalExecutor"}

\* the calls of fn that p's execute has made, in order
CallsOf(p, fns) == SelectSeq(calls[p], LAMBDA e : e.fn \in fns)

Count(p, fn) == Len(CallsOf(p, {fn}))

Called(p, fn) == Count(p, fn) > 0

\* the sequence of phase functions p's execute has invoked
PhaseNames(p) ==
  LET phases == CallsOf(p, PhaseFns)
  IN [i \in 1..Len(phases) |-> phases[i].fn]

\* how the first call of fn ended: "NotCalled", "None", "Artifact" or "Fault"
ResultKind(p, fn) ==
  LET of_fn == CallsOf(p, {fn})
  IN IF of_fn = <<>> THEN "NotCalled"
     ELSE IF of_fn[1].ret.kind = "raise" THEN "Fault"
     ELSE IF of_fn[1].ret.value = None THEN "None"
     ELSE "Artifact"

\* p runs (or has run) execute of a strategy object
Executing(p) == pc[p] /= "idle" /\ self[p] /= NoTask

Ended(p) == Executing(p) /\ pc[p] = "done"

----------------------------------------------------------------------------
(* C1: in both untrusted strategies, once preprocess has returned None,
   neither main nor postprocess is invoked and execute has ended Skipped,
   handing None to its caller. *)
C1_PreprocessAbsentSkips ==
  \A p \in Procs :
    (/\ self[p].cls \in UntrustedClasses
     /\ ResultKind(p, "utask_preprocess") = "None")
    => /\ ~Called(p, "utask_main")
       /\ ~Called(p, "utask_postprocess")
       /\ pc[p] = "done"
       /\ signal[p] = "Skipped"
       /\ ret[p] = Returned(None)

\* both strategies have ended an execute whose preprocess returned None
C1_Witness ==
  \E p, q \in Procs :
    /\ self[p].cls = "UTask" /\ self[q].cls = "UTaskLocalExecutor"
    /\ Ended(p) /\ Ended(q)
    /\ ResultKind(p, "utask_preprocess") = "None"
    /\ ResultKind(q, "utask_preprocess") = "None"

----------------------------------------------------------------------------
(* C2, as stated: in both untrusted strategies, once preprocess has returned
   an artifact and main has returned None, postprocess is not invoked and
   execute has ended Skipped. *)
C2_MainAbsentSkips ==
  \A p \in Procs :
    (/\ self[p].cls \in UntrustedClasses
     /\ ResultKind(p, "utask_preprocess") = "Artifact"
     /\ ResultKind(p, "utask_main") = "None")
    => /\ ~Called(p, "utask_postprocess")
       /\ pc[p] = "done"
       /\ signal[p] = "Skipped"

(* C2, amended: in both untrusted strategies, once preprocess has returned an
   artifact and main has returned None, postprocess is not invoked and execute
   has ended, handing None to its caller; UTaskLocalExecutor.execute ended by
   its early return (Skipped), while UTask.execute, which does not look at
   what main returned, ran to its end (Completed) and logged that it is done. *)
C2_MainAbsentEnds ==
  \A p \in Procs :
    (/\ self[p].cls \in UntrustedClasses
     /\ ResultKind(p, "utask_preprocess") = "Artifact"
     /\ ResultKind(p, "utask_main") = "None")
    => /\ ~Called(p, "utask_postprocess")
       /\ pc[p] = "done"
       /\ ret[p] = Returned(None)
       /\ self[p].cls = "UTaskLocalExecutor"
            => signal[p] = "Skipped" /\ ~Called(p, "logs.log")
       /\ self[p].cls = "UTask"
            => signal[p] = "Completed" /\ Count(p, "logs.log") = 1

\* both strategies have ended an execute whose main returned None
C2_Witness ==
  \E p, q \in Procs :
    /\ self[p].cls = "UTask" /\ self[q].cls = "UTaskLocalExecutor"
    /\ Ended(p) /\ Ended(q)
    /\ ResultKind(p, "utask_main") = "None"
    /\ ResultKind(q, "utask_main") = "None"

----------------------------------------------------------------------------
(* C3: mode independence of UTask and UTaskLocalExecutor *)

\* p ran UTask.execute and q ran UTaskLocalExecutor.execute on the same task
\* module with the same arguments, and each phase function that both invoked
\* ended the same way in both
SameInputs(p, q) ==
  /\ Ended(p) /\ Ended(q)
  /\ self[p].cls = "UTask" /\ self[q].cls = "UTaskLocalExecutor"
  /\ self[p].module = self[q].module
  /\ ctx[p] = ctx[q]
  /\ \A fn \in {"utask_preprocess", "utask_main"} :
       (Called(p, fn) /\ Called(q, fn)) => ResultKind(p, fn) = ResultKind(q, fn)

\* the preprocess and main invocations of p's execute: function, module,
\* arguments and result
PreprocessAndMain(p) == CallsOf(p, {"utask_preprocess", "utask_main"})

(* C3, as stated: with the same inputs the two strategies invoke the same
   sequence of phase functions and end with the same signal. *)
C3_ModeIndependence ==
  \A p, q \in Procs :
    SameInputs(p, q) =>
      /\ PhaseNames(p) = PhaseNames(q)
      /\ signal[p] = signal[q]

(* C3, amended: with the same inputs the two strategies make the same
   preprocess and main invocations (same module, same arguments, same
   results: main receives the same artifact, in memory or resolved from its
   locator), and they end the same way whenever main did not return
   (preprocess returned None or raised, main raised).  Once main has
   returned they differ: UTask.execute never invokes postprocess and ends
   Completed, UTaskLocalExecutor.execute ends Skipped if main returned None
   and invokes postprocess otherwise. *)
C3_ModeIndependenceUpToMain ==
  \A p, q \in Procs :
    SameInputs(p, q) =>
      /\ Len(PreprocessAndMain(p)) = Len(PreprocessAndMain(q))
      /\ \A i \in 1..Len(PreprocessAndMain(p)) :
           PreprocessAndMain(p)[i] = PreprocessAndMain(q)[i]
      /\ PhaseNames(p) = [i \in 1..Len(PreprocessAndMain(p)) |->
                            PreprocessAndMain(p)[i].fn]
      /\ ResultKind(p, "utask_main") \in {"NotCalled", "Fault"}
           => /\ signal[p] = signal[q]
              /\ ret[p] = ret[q]
              /\ PhaseNames(p) = PhaseNames(q)
      /\ ResultKind(p, "utask_main") \in {"None", "Artifact"}
           => /\ signal[p] = "Completed"
              /\ signal[q] = "Skipped" <=> ResultKind(q, "utask_main") = "None"
              /\ Called(q, "utask_postprocess")
                   <=> ResultKind(q, "utask_main") = "Artifact"

\* the two strategies ran the same task with the same inputs, main returned
\* an artifact in both, and only UTaskLocalExecutor went on to postprocess
C3_Witness ==
  \E p, q \in Procs :
    /\ SameInputs(p, q)
    /\ ResultKind(p, "utask_main") = "Artifact"
    /\ ResultKind(q, "utask_main") = "Artifact"
    /\ Called(q, "utask_postprocess")
    /\ ~Called(p, "utask_postprocess")

----------------------------------------------------------------------------
(* C4: the distributed strategy when preprocess yields A and main yields B *)

\* p ended UTask.execute; preprocess returned an artifact and main another
UTaskYieldedAThenB(p) ==
  /\ Ended(p)
  /\ self[p].cls = "UTask"
  /\ ResultKind(p, "utask_preprocess") = "Artifact"
  /\ ResultKind(p, "utask_main") = "Artifact"

(* C4, as stated: execute then invokes postprocess on B, ends Completed, and
   has called materialize and resolve twice each. *)
C4_PostprocessAndTwoBoundaries ==
  \A p \in Procs :
    UTaskYieldedAThenB(p) =>
      /\ Called(p, "utask_postprocess")
      /\ signal[p] = "Completed"
      /\ Count(p, "materialize") = 2
      /\ Count(p, "resolve") = 2

(* C4, amended: execute then has invoked main on A, resolved from the locator
   preprocess returned, has not invoked postprocess, and ends Completed,
   handing None to its caller; over the invocation materialize is called
   twice (A after preprocess, B after main) and resolve once (A, for main):
   B is resolved only by the separate invocation that runs postprocess. *)
C4_MainOnlyOneResolve ==
  \A p \in Procs :
    UTaskYieldedAThenB(p) =>
      LET A == CallsOf(p, {"utask_preprocess"})[1].ret.value
          B == CallsOf(p, {"utask_main"})[1].ret.value
          stored == CallsOf(p, {"materialize"})
          fetched == CallsOf(p, {"resolve"})
      IN /\ Count(p, "utask_preprocess") = 1
         /\ Count(p, "utask_main") = 1
         /\ CallsOf(p, {"utask_main"})[1].args = <<A>>
         /\ ~Called(p, "utask_postprocess")
         /\ signal[p] = "Completed"
         /\ ret[p] = Returned(None)
         /\ Len(stored) = 2
         /\ stored[1].args = <<A>> /\ stored[2].args = <<B>>
         /\ Len(fetched) = 1
         /\ fetched[1].args = <<stored[1].ret.value>>
         /\ fetched[1].ret.value = A

\* UTask.execute has ended after preprocess and main each returned an artifact
C4_Witness == \E p \in Procs : UTaskYieldedAThenB(p)

----------------------------------------------------------------------------
(* C5 and C6: the classification queries, over every small registry *)

\* the strategy classes bound to task_name in the registry (one, or none)
BoundClasses(task_name) ==
  {COMMAND_MAP[i].task.cls :
     i \in {j \in 1..Len(COMMAND_MAP) : COMMAND_MAP[j].name = task_name}}

Asked(p, fn) == pc[p] = "done" /\ op[p].fn = fn

(* C5: for every registered name n, is_multimachine_executed(n) returns true
   if n is bound to UTask and false if it is bound to TrustedTask,
   UTaskLocalExecutor, PostprocessTask or UworkerMainTask. *)
C5_MultimachineIffUTask ==
  \A p \in Procs :
    (Asked(p, "is_multimachine_executed")
       /\ op[p].task_name \in DictKeys(COMMAND_MAP))
    => /\ ret[p].kind = "return"
       /\ ret[p].value \in BOOLEAN
       /\ ret[p].value <=> BoundClasses(op[p].task_name) = {"UTask"}
       /\ ~ret[p].value <=>
            BoundClasses(op[p].task_name) \in
              {{"TrustedTask"}, {"UTaskLocalExecutor"}, {"PostprocessTask"},
               {"UworkerMainTask"}}

\* one query answered true, and four answered false, one for each other strategy
C5_Witness ==
  /\ \E p \in Procs :
       /\ Asked(p, "is_multimachine_executed")
       /\ ret[p] = Returned(TRUE)
       /\ BoundClasses(op[p].task_name) = {"UTask"}
  /\ \E q \in Procs :
       /\ Asked(q, "is_multimachine_executed")
       /\ ret[q] = Returned(FALSE)
       /\ BoundClasses(op[q].task_name) = {"UTaskLocalExecutor"}

\* the place of task_name in the registry's insertion order
RegistryPlace(task_name) ==
  CHOOSE i \in 1..Len(COMMAND_MAP) : COMMAND_MAP[i].name = task_name

ScenarioRegistry ==
  <<[name |-> "a", task |-> TrustedTask("task_module")],
    [name |-> "b", task |-> UTask("task_module")],
    [name |-> "c", task |-> UTaskLocalExecutor("task_module")]>>

(* C6: get_multimachine_tasks() returns exactly the registered names bound
   to UTask, each once, in registry insertion order; two calls return the
   same sequence; for a: Trusted, b: Distributed-Untrusted, c: Local-Untrusted
   it returns <<"b">>. *)
C6_ListIsMultimachineInOrder ==
  \A p \in Procs :
    Asked(p, "get_multimachine_tasks") =>
      LET names == ret[p].value
      IN /\ ret[p].kind = "return"
         /\ \A i \in 1..Len(names) : BoundClasses(names[i]) = {"UTask"}
         /\ \A n \in DictKeys(COMMAND_MAP) :
              BoundClasses(n) = {"UTask"}
                => Cardinality({i \in 1..Len(names) : names[i] = n}) = 1
         /\ \A i, j \in 1..Len(names) :
              i < j => RegistryPlace(names[i]) < RegistryPlace(names[j])
         /\ \A q \in Procs :
              Asked(q, "get_multimachine_tasks") => ret[q] = ret[p]
         /\ COMMAND_MAP = ScenarioRegistry => names = <<"b">>

\* the scenario registry was asked and answered <<"b">>
C6_Witness ==
  \E p \in Procs :
    /\ Asked(p, "get_multimachine_tasks")
    /\ COMMAND_MAP = ScenarioRegistry
    /\ ret[p] = Returned(<<"b">>)

----------------------------------------------------------------------------
(* C7: a lookup of a task name that is not in the registry, by dispatch or
   by is_multimachine_executed, ends with KeyError for that name raised to
   the caller; the call has invoked nothing, runs no strategy, and the
   registry is the one the module was loaded with. *)
C7_UnknownTaskFails ==
  /\ COMMAND_MAP = LoadedCommandMap
  /\ \A p \in Procs :
       (/\ op[p].fn \in {"dispatch", "is_multimachine_executed"}
        /\ op[p].task_name \notin DictKeys(COMMAND_MAP))
       => /\ pc[p] = "done"
          /\ ret[p] = Raised(KeyError(op[p].task_name))
          /\ signal[p] = "Fault"
          /\ calls[p] = <<>>
          /\ self[p] = NoTask

\* one caller dispatched a name that is not registered, another asked
\* is_multimachine_executed about it
C7_Witness ==
  \E p, q \in Procs :
    /\ op[p] = [fn |-> "dispatch", task_name |-> "nonexistent"]
    /\ op[q] = [fn |-> "is_multimachine_executed", task_name |-> "nonexistent"]
    /\ ret[p].kind = "raise" /\ ret[q].kind = "raise"

----------------------------------------------------------------------------
(* C8: TrustedTask.execute makes exactly one call, execute_task of its task
   module with (task_argument, job_type); so it invokes no preprocess, main
   or postprocess and neither materializes nor resolves an artifact; what
   execute_task returned or raised is how execute ends. *)
C8_TrustedCallsExecuteTaskOnce ==
  \A p \in Procs :
    self[p].cls = "TrustedTask" =>
      /\ pc[p] \in {"execute_task", "done"}
      /\ pc[p] = "execute_task" => calls[p] = <<>>
      /\ pc[p] = "done" =>
           /\ Len(calls[p]) = 1
           /\ calls[p][1].fn = "execute_task"
           /\ calls[p][1].module = self[p].module
           /\ calls[p][1].args = <<ctx[p].task_argument, ctx[p].job_type>>
           /\ ret[p] = calls[p][1].ret
      /\ \A fn \in {"utask_preprocess", "utask_main", "utask_postprocess",
                    "materialize", "resolve"} : ~Called(p, fn)
      /\ locals[p] = NoLocals

\* a trusted task has run to its end
C8_Witness ==
  \E p \in Procs :
    /\ self[p].cls = "TrustedTask"
    /\ Ended(p)
    /\ signal[p] = "Completed"
    /\ Count(p, "execute_task") = 1

----------------------------------------------------------------------------
(* C9: what execute hands back in its two successful endings *)

\* the phase functions a strategy's execute calls when nothing cuts it short
Pipeline(cls) ==
  CASE cls = "TrustedTask" -> {"execute_task"}
    [] cls = "UTask" -> {"utask_preprocess", "utask_main"}
    [] cls = "UTaskLocalExecutor" ->
         {"utask_preprocess", "utask_main", "utask_postprocess"}
    [] cls = "PostprocessTask" -> {"utask_postprocess"}
    [] OTHER -> {"utask_main"}

\* every phase of the pipeline was invoked and returned
PipelineRan(p) ==
  \A fn \in Pipeline(self[p].cls) : ResultKind(p, fn) \in {"None", "Artifact"}

\* an Absent handoff that execute checks for was returned
ShortCircuited(p) ==
  \/ /\ self[p].cls \in UntrustedClasses
     /\ ResultKind(p, "utask_preprocess") = "None"
  \/ /\ self[p].cls = "UTaskLocalExecutor"
     /\ ResultKind(p, "utask_main") = "None"

(* C9, as stated: what execute hands back tells a Completed ending from a
   Skipped one. *)
C9_ReturnTellsEndingsApart ==
  \A p, q \in Procs :
    (Ended(p) /\ Ended(q) /\ signal[p] = "Completed" /\ signal[q] = "Skipped")
    => ret[p] /= ret[q]

(* C9, amended: every execute that does not fault ends in exactly one of two
   ways, Completed when every phase of the strategy's pipeline ran and
   returned and no Absent handoff cut it short, Skipped when an untrusted
   strategy returned early on an Absent handoff; a fault ends it by being
   raised; but execute hands None back in both successful endings, so the
   returned value does not tell them apart. *)
C9_BothEndingsReturnNone ==
  \A p \in Procs :
    Ended(p) =>
      /\ signal[p] \in {"Completed", "Skipped", "Fault"}
      /\ signal[p] = "Fault" <=> ret[p].kind = "raise"
      /\ signal[p] \in {"Completed", "Skipped"} => ret[p] = Returned(None)
      /\ signal[p] = "Skipped" <=> (ret[p].kind = "return" /\ ShortCircuited(p))
      /\ signal[p] = "Completed"
           <=> (ret[p].kind = "return" /\ PipelineRan(p) /\ ~ShortCircuited(p))

\* one execute ended Completed, another Skipped, and both handed back None
C9_Witness ==
  \E p, q \in Procs :
    /\ Ended(p) /\ Ended(q)
    /\ signal[p] = "Completed" /\ signal[q] = "Skipped"
    /\ ret[p] = Returned(None) /\ ret[q] = Returned(None)

----------------------------------------------------------------------------
(* C10: in every strategy, a fault raised by a phase function is the last
   thing the invocation does: execute has ended with that same fault raised
   to its caller, nothing was called after it, and each phase function is
   invoked at most once in an invocation. *)
C10_FaultPropagatesNoRetry ==
  \A p \in Procs :
    Executing(p) =>
      /\ \A fn \in PhaseFns : Count(p, fn) <= 1
      /\ \A i \in 1..Len(calls[p]) :
           calls[p][i].ret.kind = "raise" =>
             /\ i = Len(calls[p])
             /\ calls[p][i].fn \in PhaseFns
             /\ pc[p] = "done"
             /\ ret[p] = calls[p][i].ret
             /\ signal[p] = "Fault"
      /\ ret[p].kind = "raise" =>
           /\ calls[p] /= <<>>
           /\ calls[p][Len(calls[p])].ret = ret[p]

\* main faulted in the in-memory strategy, execute_task in a trusted one
C10_Witness ==
  \E p, q \in Procs :
    /\ self[p].cls = "UTaskLocalExecutor" /\ self[q].cls = "TrustedTask"
    /\ Ended(p) /\ Ended(q)
    /\ ResultKind(p, "utask_main") = "Fault"
    /\ ResultKind(q, "execute_task") = "Fault"
    /\ ret[p] = Raised(Fault("utask_main", self[p].module))
    /\ ret[q] = Raised(Fault("execute_task", self[q].module))

----------------------------------------------------------------------------
(* C11: isolation of the untrusted phase *)

\* what a call was made with: function, module and arguments, not its result
Invocation(e) == [fn |-> e.fn, module |-> e.module, args |-> e.args]

\* the invocations of fn that p's execute has made, in order
InvocationsOf(p, fn) ==
  LET of_fn == CallsOf(p, {fn})
  IN [i \in 1..Len(of_fn) |-> Invocation(of_fn[i])]

\* the value preprocess returned to p's execute
PreprocessValue(p) == CallsOf(p, {"utask_preprocess"})[1].ret.value

(* C11: in both untrusted strategies uworker_env is an argument of the
   preprocess invocation only: main is invoked with one argument, the artifact
   preprocess returned (in UTask after it went through its locator, which
   names nothing but the artifact), so two invocations whose preprocess
   returned the same artifact under different environments invoke main with
   identical arguments. *)
C11_EnvOnlyToPreprocess ==
  /\ \A p \in Procs :
       self[p].cls \in UntrustedClasses =>
         LET pre == CallsOf(p, {"utask_preprocess"})
             main == CallsOf(p, {"utask_main"})
             fetched == CallsOf(p, {"resolve"})
             stored == CallsOf(p, {"materialize"})
         IN /\ pre /= <<>>
                 => pre[1].args = <<ctx[p].task_argument, ctx[p].job_type,
                                    ctx[p].uworker_env>>
            /\ Len(pre) <= 1 /\ Len(main) <= 1 /\ Len(fetched) <= 1
            /\ main /= <<>>
                 => /\ ResultKind(p, "utask_preprocess") = "Artifact"
                    /\ main[1].args = <<pre[1].ret.value>>
            /\ stored /= <<>>
                 => stored[1].args = <<pre[1].ret.value>>
            /\ fetched /= <<>>
                 => fetched[1].args = <<Materialize(pre[1].ret.value)>>
  /\ \A p, q \in Procs :
       (/\ self[p].cls \in UntrustedClasses
        /\ self[q].cls \in UntrustedClasses
        /\ ctx[p].uworker_env /= ctx[q].uworker_env
        /\ Called(p, "utask_main") /\ Called(q, "utask_main")
        /\ PreprocessValue(p) = PreprocessValue(q))
       => InvocationsOf(p, "utask_main") = InvocationsOf(q, "utask_main")

\* the two strategies, given different environments, got the same artifact
\* from preprocess and have both invoked main
C11_Witness ==
  \E p, q \in Procs :
    /\ self[p].cls = "UTask" /\ self[q].cls = "UTaskLocalExecutor"
    /\ ctx[p].uworker_env /= ctx[q].uworker_env
    /\ Called(p, "utask_main") /\ Called(q, "utask_main")
    /\ PreprocessValue(p) = PreprocessValue(q)
    /\ InvocationsOf(p, "utask_main") = InvocationsOf(q, "utask_main")

----------------------------------------------------------------------------
(* C12: the standalone phase strategies *)

StandaloneClasses == {"PostprocessTask", "UworkerMainTask"}

\* the one phase function of a standalone strategy and the kind of artifact
\* its locator names
StandalonePhase(cls) ==
  IF cls = "PostprocessTask" THEN "utask_postprocess" ELSE "utask_main"

StandaloneKind(cls) ==
  IF cls = "PostprocessTask" THEN "uworker_output" ELSE "uworker_input"

\* what p's execute has invoked with its locator: the fetch and the phase
LocatorInvocations(p) ==
  LET made == CallsOf(p, {"resolve"} \cup PhaseFns)
  IN [i \in 1..Len(made) |-> Invocation(made[i])]

(* C12: PostprocessTask.execute invokes postprocess and no other phase
   function, UworkerMainTask.execute invokes main and no other phase function,
   each exactly once, on the artifact that task_argument, taken as the
   locator, names; neither invokes preprocess; and two invocations of the same
   standalone strategy with the same task_argument, whatever their job_type
   and uworker_env, make the same phase invocation with the same argument. *)
C12_StandaloneRunsOnePhase ==
  /\ \A p \in Procs :
       self[p].cls \in StandaloneClasses =>
         LET input_path == ExternalPath(ctx[p].task_argument,
                                        StandaloneKind(self[p].cls))
         IN /\ ~Called(p, "utask_preprocess")
            /\ pc[p] /= "done" => calls[p] = <<>>
            /\ pc[p] = "done" =>
                 /\ PhaseNames(p) = <<StandalonePhase(self[p].cls)>>
                 /\ LocatorInvocations(p) =
                      <<[fn |-> "resolve", module |-> "storage",
                         args |-> <<input_path>>],
                        [fn |-> StandalonePhase(self[p].cls),
                         module |-> Resolve(input_path).module,
                         args |-> <<Resolve(input_path)>>]>>
  /\ \A p, q \in Procs :
       (/\ self[p].cls \in StandaloneClasses
        /\ self[q].cls = self[p].cls
        /\ Ended(p) /\ Ended(q)
        /\ ctx[p].task_argument = ctx[q].task_argument)
       => LocatorInvocations(p) = LocatorInvocations(q)

\* PostprocessTask.execute has run twice on the same task_argument, with
\* another job_type and another environment the second time
C12_Witness ==
  \E p, q \in Procs :
    /\ self[p].cls = "PostprocessTask" /\ self[q].cls = "PostprocessTask"
    /\ Ended(p) /\ Ended(q)
    /\ ctx[p].task_argument = ctx[q].task_argument
    /\ ctx[p].job_type /= ctx[q].job_type
    /\ ctx[p].uworker_env /= ctx[q].uworker_env
    /\ PhaseNames(p) = <<"utask_postprocess">>
    /\ LocatorInvocations(p) = LocatorInvocations(q)

----------------------------------------------------------------------------
\* what each name of the registry the module builds is bound to
LoadedBinding ==
  [task_name \in DictKeys(LoadedCommandMap) |->
     DictGetItem(LoadedCommandMap, task_name)]

(* C13: after any interleaving of execute invocations, is_multimachine_executed
   calls and get_multimachine_tasks calls, COMMAND_MAP is the mapping the
   load of the module built: it has the same names, in the same order, bound
   to the same strategy objects. *)
C13_RegistryUnchanged ==
  /\ COMMAND_MAP = LoadedCommandMap
  /\ \A p \in Procs :
       Executing(p) =>
         \/ op[p].fn = "execute"
         \/ LoadedBinding[op[p].task_name] = Returned(self[p])

\* an execute has run to its end and a query on a name that is not bound has
\* been answered
C13_Witness ==
  \E p, q \in Procs :
    /\ Ended(p) /\ calls[p] /= <<>>
    /\ Asked(q, "is_multimachine_executed")
    /\ op[q].task_name = "nonexistent"
    /\ COMMAND_MAP = LoadedCommandMap

----------------------------------------------------------------------------
(* C14, as stated: a name that is bound keeps its place and its strategy
   while the registry is built: an entry written under a name that is already
   bound does not replace the earlier binding. *)
C14_DuplicateNeverReplaces ==
  [][\A i \in 1..Len(COMMAND_MAP) :
       /\ i <= Len(COMMAND_MAP')
       /\ COMMAND_MAP'[i] = COMMAND_MAP[i]]_vars

----------------------------------------------------------------------------
(* C15: concurrent invocations *)

Outcome(events, result, sig) ==
  [calls |-> events, ret |-> result, signal |-> sig]

\* execute of `task` run alone, from its call to its return, when its phase
\* functions end as r_first, r_main and r_postprocess say (r_first is for
\* preprocess, or for the one function a one-phase strategy calls)
RunAlone(task, c, r_first, r_main, r_postprocess) ==
  CASE task.cls = "TrustedTask" ->
         LET call == TrustedTask_execute_call(task.module, c, r_first)
         IN IF call.ret.kind = "raise"
            THEN Outcome(<<call>>, call.ret, "Fault")
            ELSE Outcome(<<call>>, Returned(None), "Completed")
    [] task.cls = "UTask" ->
         LET pre == tworker_preprocess(task.module, c, r_first)
             main == uworker_main(UTask_input_download_url(pre.ret.value),
                                  r_main)
         IN IF pre.ret.kind = "raise"
            THEN Outcome(pre.events, pre.ret, "Fault")
            ELSE IF UTask_preprocess_result_is_None(pre.ret.value)
            THEN Outcome(pre.events, Returned(None), "Skipped")
            ELSE IF main.ret.kind = "raise"
            THEN Outcome(pre.events \o main.events, main.ret, "Fault")
            ELSE Outcome(pre.events \o main.events \o
                           <<logs_log("Utask: done with preprocess and main.")>>,
                         Returned(None), "Completed")
    [] task.cls = "UTaskLocalExecutor" ->
         LET pre == tworker_preprocess_no_io(task.module, c, r_first)
             main == uworker_main_no_io(task.module, pre.ret.value, r_main)
             post == tworker_postprocess_no_io(task.module, main.ret.value,
                                               pre.ret.value, r_postprocess)
         IN IF pre.ret.kind = "raise"
            THEN Outcome(pre.events, pre.ret, "Fault")
            ELSE IF UTaskLocalExecutor_uworker_input_is_None(pre.ret.value)
            THEN Outcome(pre.events, Returned(None), "Skipped")
            ELSE IF main.ret.kind = "raise"
            THEN Outcome(pre.events \o main.events, main.ret, "Fault")
            ELSE IF UTaskLocalExecutor_uworker_output_is_None(main.ret.value)
            THEN Outcome(pre.events \o main.events, Returned(None), "Skipped")
            ELSE IF post.ret.kind = "raise"
            THEN Outcome(pre.events \o main.events \o post.events, post.ret,
                         "Fault")
            ELSE Outcome(pre.events \o main.events \o post.events \o
                           <<logs_log("Utask local: done.")>>,
                         Returned(None), "Completed")
    [] task.cls = "PostprocessTask" ->
         LET post == tworker_postprocess(
                       ExternalPath(c.task_argument, "uworker_output"), r_first)
         IN IF post.ret.kind = "raise"
            THEN Outcome(post.events, post.ret, "Fault")
            ELSE Outcome(post.events, Returned(None), "Completed")
    [] OTHER ->
         LET main == uworker_main(
                       ExternalPath(c.task_argument, "uworker_input"), r_first)
         IN IF main.ret.kind = "raise"
            THEN Outcome(main.events, main.ret, "Fault")
            ELSE Outcome(main.events, Returned(None), "Completed")

\* the first phase function of a strategy's pipeline
FirstPhase(cls) ==
  CASE cls = "TrustedTask" -> "execute_task"
    [] cls \in UntrustedClasses -> "utask_preprocess"
    [] cls = "PostprocessTask" -> "utask_postprocess"
    [] OTHER -> "utask_main"

\* how fn ended in p's execute, "None" standing for a function not invoked
Ended_as(p, fn) ==
  LET kind == ResultKind(p, fn)
  IN IF kind = "NotCalled" THEN "None" ELSE kind

\* p's execute did, and handed back, what the same call does when run alone
\* with its phase functions ending the same way
AsWhenRunAlone(p) ==
  Outcome(calls[p], ret[p], signal[p])
    = RunAlone(self[p], ctx[p], Ended_as(p, FirstPhase(self[p].cls)),
               Ended_as(p, "utask_main"), Ended_as(p, "utask_postprocess"))

\* the locators from which p's execute has fetched an artifact
Fetched(p) ==
  LET made == CallsOf(p, {"resolve"})
  IN {made[i].args[1] : i \in 1..Len(made)}

\* in p's execute every phase function but the first was handed what the
\* phase function before it returned in the same execute
OwnHandoffs(p) ==
  LET main == CallsOf(p, {"utask_main"})
      post == CallsOf(p, {"utask_postprocess"})
  IN /\ main /= <<>> =>
          /\ ResultKind(p, "utask_preprocess") = "Artifact"
          /\ main[1].args = <<PreprocessValue(p)>>
     /\ post /= <<>> =>
          /\ ResultKind(p, "utask_main") = "Artifact"
          /\ post[1].args[1] = main[1].ret.value
     /\ Fetched(p) \subseteq Stored(p)

(* C15, as stated: under every interleaving each execute does what it does
   when run alone, and no artifact that one execute produced is consumed by a
   phase function of another execute. *)
C15_NoArtifactCrossesInvocations ==
  /\ \A p \in Procs : Ended(p) => AsWhenRunAlone(p)
  /\ \A p, q \in Procs :
       (p /= q /\ Executing(p) /\ Executing(q))
       => Fetched(q) \cap Stored(p) = {}

(* C15, amended: under every interleaving of execute invocations, on the same
   strategy object or on different ones, each execute makes the same calls
   with the same arguments and ends the same way as when run alone; in
   UTask.execute and UTaskLocalExecutor.execute every phase function but the
   first is handed what its predecessor returned in the same invocation.  The
   standalone strategies are the exception the pipeline is built on:
   PostprocessTask.execute and UworkerMainTask.execute consume the artifact
   their locator names, which the main (or preprocess) of another invocation
   produced and stored. *)
C15_InvocationsDoNotInterfere ==
  /\ \A p \in Procs : Ended(p) => AsWhenRunAlone(p)
  /\ \A p \in Procs :
       self[p].cls \in UntrustedClasses => OwnHandoffs(p)
  /\ \A p \in Procs :
       (self[p].cls \in StandaloneClasses /\ Ended(p))
       => /\ Fetched(p) = {ExternalPath(ctx[p].task_argument,
                                        StandaloneKind(self[p].cls))}
          /\ Fetched(p) \cap Stored(p) = {}

\* two executes of the same strategy object, for different job types, have
\* both run their three phases, one step of the one between two of the other
C15_Witness ==
  \E p, q \in Procs :
    /\ p /= q
    /\ self[p].cls = "UTaskLocalExecutor" /\ self[q] = self[p]
    /\ ctx[p].job_type /= ctx[q].job_type
    /\ Ended(p) /\ pc[q] = "postprocess"
    /\ signal[p] = "Completed"
    /\ PreprocessValue(p) /= PreprocessValue(q)
    /\ AsWhenRunAlone(p)

----------------------------------------------------------------------------
(* C16: UTask.execute on this machine, postprocess on another *)

\* the output_download_url preprocess handed to p's UTask.execute, which
\* execute itself does not use
OutputUrl(p) == locals[p].preprocess_result.output_download_url

\* q, another invocation, has run postprocess on the output of p's main
PostprocessedBy(q, p) ==
  /\ q /= p
  /\ self[q].cls = "PostprocessTask"
  /\ pc[q] = "done"
  /\ ResultKind(p, "utask_main") = "Artifact"
  /\ Fetched(q) = {OutputUrl(p)}
  /\ Called(q, "utask_postprocess")
  /\ CallsOf(q, {"utask_postprocess"})[1].args
       = <<CallsOf(p, {"utask_main"})[1].ret.value>>

PostprocessedElsewhere(p) == \E q \in Procs : PostprocessedBy(q, p)

\* postprocess can still be run for an output this machine has stored
PostprocessPending == \E q \in Procs : ENABLED PostprocessTask_execute_elsewhere(q)

\* what UTask.execute itself does once preprocess has returned a value: main
\* once, on the artifact behind the input locator, and no postprocess
MainOnceOnInputLocator(p) ==
  /\ Count(p, "utask_main") = 1
  /\ CallsOf(p, {"resolve"})[1].args = <<locals[p].preprocess_result.input_download_url>>
  /\ CallsOf(p, {"utask_main"})[1].args
       = <<Resolve(locals[p].preprocess_result.input_download_url)>>
  /\ CallsOf(p, {"utask_main"})[1].args = <<PreprocessValue(p)>>
  /\ ~Called(p, "utask_postprocess")

(* C16, as stated: once UTask.execute has ended after preprocess returned a
   value, main was invoked exactly once with the input locator preprocess
   returned, postprocess was not invoked in that invocation, and postprocess
   for that task has been run by a separate invocation or is still to be run
   by one.  (After execute has ended nothing of its invocation changes, so
   a postprocess that is neither done nor pending never comes.) *)
C16_PostprocessFollowsPreprocess ==
  \A p \in Procs :
    (/\ self[p].cls = "UTask" /\ Ended(p)
     /\ ResultKind(p, "utask_preprocess") = "Artifact")
    => /\ MainOnceOnInputLocator(p)
       /\ PostprocessedElsewhere(p) \/ PostprocessPending

(* C16, amended: whenever preprocess returns a value UTask.execute invokes
   main exactly once, with the artifact behind the input locator preprocess
   returned, and does not invoke postprocess.  Postprocess for that task is
   run only by a separate invocation, PostprocessTask.execute given the
   output locator, and only for an output that main has returned and stored:
   then it eventually is run, provided the stored output is handed to the
   uworker_postprocess task; when main returns None or raises, no postprocess
   for that task ever follows. *)
C16_PostprocessFollowsMainOutput ==
  /\ [](\A p \in Procs :
          (self[p].cls = "UTask" /\ Ended(p)) =>
            /\ ResultKind(p, "utask_preprocess") = "Artifact"
                 => MainOnceOnInputLocator(p)
            /\ ~Called(p, "utask_postprocess")
            /\ ResultKind(p, "utask_main") = "Artifact"
                 => /\ OutputUrl(p) \in Stored(p)
                    /\ PostprocessedElsewhere(p) \/ PostprocessPending
            /\ ResultKind(p, "utask_main") /= "Artifact"
                 => ~PostprocessedElsewhere(p) /\ ~PostprocessPending)
  /\ [](\A q \in Procs :
          Called(q, "utask_postprocess") =>
            \E p \in Procs : self[p].cls = "UTask" /\ PostprocessedBy(q, p))
  /\ \A p \in Procs :
       (self[p].cls = "UTask" /\ ResultKind(p, "utask_main") = "Artifact")
         ~> PostprocessedElsewhere(p)

\* main has returned an output on this machine and another invocation has run
\* postprocess on it
C16_Witness ==
  \E p, q \in Procs :
    /\ self[p].cls = "UTask" /\ Ended(p) /\ signal[p] = "Completed"
    /\ MainOnceOnInputLocator(p)
    /\ PostprocessedBy(q, p)
    /\ signal[q] = "Completed"

----------------------------------------------------------------------------
(* C17: in UTaskLocalExecutor.execute main is invoked, on the strategy's own
   task module, with exactly the value preprocess returned, and postprocess
   is invoked with exactly the value main returned together with the value
   main was invoked with; a phase function is invoked only after its
   predecessor has returned a value in the same invocation, and the values
   execute holds between two phases are the ones those phases returned. *)
C17_LocalHandoffsUnchanged ==
  \A p \in Procs :
    self[p].cls = "UTaskLocalExecutor" =>
      LET pre == CallsOf(p, {"utask_preprocess"})
          main == CallsOf(p, {"utask_main"})
          post == CallsOf(p, {"utask_postprocess"})
      IN /\ pc[p] = "preprocess" => calls[p] = <<>>
         /\ pc[p] = "main" =>
              /\ calls[p] = pre /\ Len(pre) = 1
              /\ locals[p].preprocess_result = pre[1].ret.value
         /\ pc[p] = "postprocess" =>
              /\ calls[p] = pre \o main /\ Len(main) = 1
              /\ locals[p].preprocess_result = pre[1].ret.value
              /\ locals[p].uworker_output = main[1].ret.value
         /\ main /= <<>> =>
              /\ ResultKind(p, "utask_preprocess") = "Artifact"
              /\ main[1].module = self[p].module
              /\ main[1].args = <<pre[1].ret.value>>
         /\ post /= <<>> =>
              /\ ResultKind(p, "utask_main") = "Artifact"
              /\ post[1].module = self[p].module
              /\ post[1].args = <<main[1].ret.value, main[1].args[1]>>
              /\ post[1].args[2] = pre[1].ret.value

\* UTaskLocalExecutor.execute has run its three phases: postprocess got main's
\* output and preprocess's input
C17_Witness ==
  \E p \in Procs :
    /\ self[p].cls = "UTaskLocalExecutor"
    /\ Ended(p) /\ signal[p] = "Completed"
    /\ LET A == UworkerInput(self[p].module, ctx[p].task_argument,
                             ctx[p].job_type)
       IN /\ CallsOf(p, {"utask_main"})[1].args = <<A>>
          /\ CallsOf(p, {"utask_postprocess"})[1].args = <<UworkerOutput(A), A>>

----------------------------------------------------------------------------
\* what the two queries answer on the registry the module builds
LoadedRegistryIsAllInMemory ==
  /\ Len(LoadedCommandMap) = 14
  /\ Cardinality(DictKeys(LoadedCommandMap)) = 14
  /\ \A i \in 1..Len(LoadedCommandMap) :
       LET task == LoadedCommandMap[i].task
       IN /\ task.cls /= "UTask"
          /\ task.module \in UtaskModules
               => /\ task = utask_factory(task.module, TRUE)
                  /\ task.cls = "UTaskLocalExecutor"
  /\ \A task_name \in DictKeys(LoadedCommandMap) :
       is_multimachine_executed(LoadedCommandMap, task_name) = Returned(FALSE)
  /\ get_multimachine_tasks(LoadedCommandMap) = Returned(<<>>)

(* C18: utask_factory makes a UTaskLocalExecutor when in_memory is true and a
   UTask otherwise; the loaded registry has 14 names, each of its utask
   modules is bound to the UTaskLocalExecutor that utask_factory makes by
   default, and so, in every reachable state, is_multimachine_executed
   returns False for each of the 14 names and get_multimachine_tasks returns
   the empty list. *)
C18_ShippedRegistryIsAllInMemory ==
  /\ COMMAND_MAP = LoadedCommandMap
  /\ LoadedRegistryIsAllInMemory
  /\ \A p \in Procs :
       /\ (Asked(p, "is_multimachine_executed")
           /\ op[p].task_name \in DictKeys(COMMAND_MAP))
          => ret[p] = Returned(FALSE)
       /\ Asked(p, "get_multimachine_tasks") => ret[p] = Returned(<<>>)
       /\ (Executing(p) /\ op[p].fn = "execute")
          => /\ self[p] = utask_factory(self[p].module, FALSE)
             /\ self[p].cls = "UTask"

\* one caller was told that fuzz is not multi-machine, another got the empty
\* list, while fuzz is bound to what utask_factory makes by default
C18_Witness ==
  \E p, q \in Procs :
    /\ Asked(p, "is_multimachine_executed") /\ op[p].task_name = "fuzz"
    /\ ret[p] = Returned(FALSE)
    /\ Asked(q, "get_multimachine_tasks") /\ ret[q] = Returned(<<>>)
    /\ DictGetItem(COMMAND_MAP, "fuzz")
         = Returned(utask_factory("fuzz_task", TRUE))

----------------------------------------------------------------------------
(* C19: termination of execute *)

\* the phase functions of a strategy's execute, in the order it calls them
PipelineSeq(cls) ==
  CASE cls = "TrustedTask" -> <<"execute_task">>
    [] cls = "UTask" -> <<"utask_preprocess", "utask_main">>
    [] cls = "UTaskLocalExecutor" ->
         <<"utask_preprocess", "utask_main", "utask_postprocess">>
    [] cls = "PostprocessTask" -> <<"utask_postprocess">>
    [] OTHER -> <<"utask_main">>

\* the phase function execute is about to call at each position
NextPhase(position) ==
  CASE position = "execute_task" -> "execute_task"
    [] position = "preprocess" -> "utask_preprocess"
    [] position = "main" -> "utask_main"
    [] OTHER -> "utask_postprocess"

\* one step of p's execute, whatever its strategy
ExecuteStep(p) ==
  \/ TrustedTask_execute(p)
  \/ UTask_execute_preprocess(p)
  \/ UTask_execute_main(p)
  \/ UTaskLocalExecutor_execute_preprocess(p)
  \/ UTaskLocalExecutor_execute_main(p)
  \/ UTaskLocalExecutor_execute_postprocess(p)
  \/ PostprocessTask_execute(p)
  \/ UworkerMainTask_execute(p)

(* C19: every execute, of every strategy, ends after at most one call of each
   of its phase functions: while it has not ended it can take its next step
   whatever the phase function does (return None, return a value, raise), it
   has called exactly the phase functions before the one it is about to call,
   each once and in pipeline order, so no step takes it back to an earlier
   phase; and when it has ended, Completed, Skipped or by a raised fault, it
   has called a non-empty prefix of its pipeline: at most one preprocess, one
   main and one postprocess, or the one execute_task of a trusted task. *)
C19_ExecuteTerminates ==
  \A p \in Procs :
    Executing(p) =>
      LET pipeline == PipelineSeq(self[p].cls)
          invoked == PhaseNames(p)
          done == Len(invoked)
      IN /\ done <= Len(pipeline)
         /\ invoked = SubSeq(pipeline, 1, done)
         /\ pc[p] /= "done" =>
              /\ done < Len(pipeline)
              /\ pipeline[done + 1] = NextPhase(pc[p])
              /\ signal[p] = "Running" /\ ret[p] = NoRet
              /\ ENABLED ExecuteStep(p)
         /\ pc[p] = "done" =>
              /\ done >= 1
              /\ signal[p] \in {"Completed", "Skipped", "Fault"}
              /\ ret[p].kind \in {"return", "raise"}
              /\ ~ENABLED ExecuteStep(p)

\* the longest pipeline and the shortest have both run to their end
C19_Witness ==
  \E p, q \in Procs :
    /\ self[p].cls = "UTaskLocalExecutor" /\ self[q].cls = "TrustedTask"
    /\ Ended(p) /\ Ended(q)
    /\ PhaseNames(p) = <<"utask_preprocess", "utask_main", "utask_postprocess">>
    /\ PhaseNames(q) = <<"execute_task">>
    /\ signal[p] = "Completed" /\ signal[q] = "Completed"

====
